---- MODULE Spec2Model ----
(***************************************************************************)
(* A model of dicemap.py: the two counting functions diceMap and           *)
(* doubleDiceCall, the dice-notation parser dNumTranslator, and the        *)
(* interactive command loop of the __main__ block.                         *)
(*                                                                         *)
(* Python values are modelled as records so that ints, floats and None can *)
(* live in one list and be compared:                                       *)
(*   int   n     [type |-> "int",      num |-> n, den |-> 1]               *)
(*   float p/q   [type |-> "float",    num |-> p, den |-> q]  (lowest      *)
(*               terms, q > 0)                                             *)
(*   None        [type |-> "NoneType", num |-> 0, den |-> 1]               *)
(* A float is kept as the exact quotient it was rounded from.  IEEE        *)
(* division is a function of the exact quotient, so equal quotients are    *)
(* equal floats; nothing below depends on how a quotient is rounded.       *)
(*                                                                         *)
(* The outcome of a call is a record: Return(v) or Raise(e), e the name of *)
(* the Python exception that leaves the call.                              *)
(***************************************************************************)
EXTENDS Integers, Sequences, FiniteSets, TLC

VARIABLES
    hand,       \* core run: the diceList of the top-level call
    topRec,     \* core run: the rec argument of the top-level call
    pc,         \* core run: "ready", "running", "done"
    stack,      \* core run: the frames of diceMap, outermost first
    ret,        \* core run: the value the last finished inner call returned
    result,     \* core run: the outcome of the top-level call
    normDepths, \* core run: the stack depths at which line 62 was executed
    baseHits,   \* core run: the stack depths at which line 45 was executed
    dice,       \* command loop: the list of active hands
    lines,      \* command loop: the labels of the lines on the axes
    gameOn,     \* command loop: the loop condition
    status,     \* command loop: "running", "exited", "crashed"
    exc,        \* command loop: the exception that ended the program
    userIn,     \* command loop: the command handled last
    prevDice    \* command loop: dice before the command handled last

vars == <<hand, topRec, pc, stack, ret, result, normDepths, baseHits,
          dice, lines, gameOn, status, exc, userIn, prevDice>>

coreVars == <<hand, topRec, pc, stack, ret, result, normDepths, baseHits>>
loopVars == <<dice, lines, gameOn, status, exc, userIn, prevDice>>

-----------------------------------------------------------------------------
(* Bounds of the model *)

MaxDice == 3
MaxSize == 4
MaxHands == 3

\* die sizes tried, the invalid sizes 0 and -1 among them
DieSizes == -1 .. MaxSize

RECURSIVE SeqsUpTo(_, _)
SeqsUpTo(S, n) ==
    IF n = 0 THEN {<<>>}
    ELSE LET shorter == SeqsUpTo(S, n - 1)
         IN  shorter \cup {Append(s, x) : s \in {t \in shorter : Len(t) = n - 1}, x \in S}

Hands == SeqsUpTo(DieSizes, MaxDice)

-----------------------------------------------------------------------------
(* Python values and outcomes *)

PyInt(n) == [type |-> "int", num |-> n, den |-> 1]
PyNone == [type |-> "NoneType", num |-> 0, den |-> 1]

Abs(x) == IF x < 0 THEN -x ELSE x
Min(a, b) == IF a <= b THEN a ELSE b

RECURSIVE Gcd(_, _)
Gcd(a, b) == IF b = 0 THEN a ELSE Gcd(b, a % b)

\* the float whose exact value is p/q, q # 0
PyFloat(p, q) ==
    LET g == Gcd(Abs(p), Abs(q))
        s == IF q < 0 THEN -1 ELSE 1
    IN  [type |-> "float", num |-> (s * p) \div g, den |-> (s * q) \div g]

Return(v) == [kind |-> "return", value |-> v, exc |-> "none"]
Raise(e) == [kind |-> "raise", value |-> <<>>, exc |-> e]

\* [v] * k : k copies of v, the empty list for k <= 0
Repeat(v, k) == IF k <= 0 THEN <<>> ELSE [i \in 1 .. k |-> v]

RECURSIVE sum(_)
sum(s) == IF s = <<>> THEN 0 ELSE Head(s) + sum(Tail(s))

\* reduce(mul, s) for a non-empty s
RECURSIVE reduceMul(_)
reduceMul(s) == IF Len(s) = 1 THEN s[1] ELSE reduceMul(SubSeq(s, 1, Len(s) - 1)) * s[Len(s)]

\* a / b on two numbers, b # 0
TrueDiv(a, b) == PyFloat(a.num * b.den, a.den * b.num)

\* a + b on two numbers: an int when both are ints, a float otherwise
PyAdd(a, b) ==
    IF a.type = "int" /\ b.type = "int" THEN PyInt(a.num + b.num)
    ELSE PyFloat(a.num * b.den + b.num * a.den, a.den * b.den)

-----------------------------------------------------------------------------
(* doubleDiceCall *)

maxCount_n(n, m) == n
maxCount(n, m) == Min(m, n)

\* math.ceil(k / 2) for k >= 0
loopStop_floor(k) == k \div 2
loopStop(k) == (k + 1) \div 2

\* the body of the for loop, for one i: both mirrored cells are written
ddcBody(countRet, mc, i) ==
    LET v == IF i >= mc THEN PyInt(mc) ELSE PyInt(i + 1)
    IN  [countRet EXCEPT ![i + 1] = v, ![Len(countRet) - i] = v]

RECURSIVE ddcLoop(_, _, _, _)
ddcLoop(countRet, mc, i, stop) ==
    IF i >= stop THEN countRet
    ELSE ddcLoop(ddcBody(countRet, mc, i), mc, i + 1, stop)

doubleDiceCall(n, m) ==
    LET countRet == Repeat(PyNone, n + m - 1)
    IN  ddcLoop(countRet, maxCount(n, m), 0, loopStop(Len(countRet)))

-----------------------------------------------------------------------------
(* diceMap *)

\* line 38: [0]*(sum(diceList)-len(diceList)+1)
probArrayLen_short(diceList) == sum(diceList) - Len(diceList)
probArrayLen(diceList) == sum(diceList) - Len(diceList) + 1

initProbArray(diceList) == Repeat(PyInt(0), probArrayLen(diceList))

\* line 45: [1/diceList[0] for _ in range(diceList[0])]; the division is
\* evaluated once per element, so not at all for a size below 1
singleDie_counts(d) == Repeat(PyInt(1), d)
singleDie(d) == Repeat(TrueDiv(PyInt(1), PyInt(d)), d)

\* line 50: diceList[1:]
tailSlice_two(diceList) == SubSeq(diceList, 3, Len(diceList))
tailSlice(diceList) == SubSeq(diceList, 2, Len(diceList))

\* line 55: probArray[placeIndex + probOffset] += tmp[placeIndex]
addAt(probArray, idx, v) ==
    IF idx >= Len(probArray) THEN Raise("IndexError")
    ELSE IF v.type = "NoneType" THEN Raise("TypeError")
    ELSE Return([probArray EXCEPT ![idx + 1] = PyAdd(probArray[idx + 1], v)])

\* lines 54-55: for placeIndex in range(len(tmp))
RECURSIVE placeLoop(_, _, _, _)
placeLoop(probArray, tmp, probOffset, placeIndex) ==
    IF placeIndex >= Len(tmp) THEN Return(probArray)
    ELSE LET r == addAt(probArray, placeIndex + probOffset, tmp[placeIndex + 1])
         IN  IF r.kind = "raise" THEN r
             ELSE placeLoop(r.value, tmp, probOffset, placeIndex + 1)

\* lines 53-55: for probOffset in range(diceList[0])
RECURSIVE offsetLoop(_, _, _, _)
offsetLoop(probArray, tmp, head, probOffset) ==
    IF probOffset >= head THEN Return(probArray)
    ELSE LET r == placeLoop(probArray, tmp, probOffset, 0)
         IN  IF r.kind = "raise" THEN r
             ELSE offsetLoop(r.value, tmp, head, probOffset + 1)

convolve_skipFirst(probArray, tmp, head) == offsetLoop(probArray, tmp, head, 1)
convolve(probArray, tmp, head) == offsetLoop(probArray, tmp, head, 0)

\* line 62: [i/div for i in probArray]; the first element decides the error
normalize(probArray, div) ==
    IF probArray = <<>> THEN Return(<<>>)
    ELSE IF probArray[1].type = "NoneType" THEN Raise("TypeError")
    ELSE IF div = 0 THEN Raise("ZeroDivisionError")
    ELSE IF \E i \in 1 .. Len(probArray) : probArray[i].type = "NoneType"
         THEN Raise("TypeError")
    ELSE Return([i \in 1 .. Len(probArray) |-> TrueDiv(probArray[i], PyInt(div))])

\* lines 60-62
finish(probArray, div, rec) ==
    IF rec THEN Return(probArray) ELSE normalize(probArray, div)

\* the whole function, as one evaluation
RECURSIVE diceMap(_, _)
diceMap(diceList, rec) ==
    IF diceList = <<>> THEN Raise("TypeError")
    ELSE
      LET probArray == initProbArray(diceList)
          div == reduceMul(diceList)
      IN  IF Len(diceList) = 1 THEN Return(singleDie(diceList[1]))
          ELSE IF Len(diceList) > 2 THEN
            LET tmp == diceMap(tailSlice(diceList), TRUE)
            IN  IF tmp.kind = "raise" THEN tmp
                ELSE LET c == convolve(probArray, tmp.value, diceList[1])
                     IN  IF c.kind = "raise" THEN c
                         ELSE finish(c.value, div, rec)
          ELSE finish(doubleDiceCall(diceList[1], diceList[2]), div, rec)

-----------------------------------------------------------------------------
(* diceMap, call by call: one frame per activation of the function *)

Frame(diceList, rec, at) == [diceList |-> diceList, rec |-> rec, at |-> at]

top == stack[Len(stack)]
depth == Len(stack)

\* the running activation returns v: to the harness from the outermost
\* frame, to the caller waiting at line 50 otherwise
returnValue(v) ==
    IF depth = 1
    THEN /\ pc' = "done"
         /\ result' = Return(v)
         /\ stack' = <<>>
         /\ ret' = ret
    ELSE /\ pc' = pc
         /\ result' = result
         /\ stack' = SubSeq(stack, 1, depth - 1)
         /\ ret' = v

\* an exception leaves the running activation: diceMap has no handler, so
\* it leaves every activation below it too
raiseOut(e) ==
    /\ pc' = "done"
    /\ result' = Raise(e)
    /\ stack' = <<>>
    /\ ret' = ret

\* lines 60-62 of the running activation
finishFrame(probArray) ==
    LET f == top
        out == finish(probArray, reduceMul(f.diceList), f.rec)
    IN  /\ normDepths' = IF f.rec THEN normDepths ELSE Append(normDepths, depth)
        /\ IF out.kind = "raise" THEN raiseOut(out.exc) ELSE returnValue(out.value)

\* the harness makes the top-level call
Start ==
    /\ pc = "ready"
    /\ pc' = "running"
    /\ stack' = <<Frame(hand, topRec, "entry")>>
    /\ UNCHANGED <<hand, topRec, ret, result, normDepths, baseHits, loopVars>>

\* line 41: reduce(mul, []) raises TypeError
EmptyHand ==
    /\ pc = "running" /\ top.at = "entry"
    /\ top.diceList = <<>>
    /\ raiseOut("TypeError")
    /\ UNCHANGED <<hand, topRec, normDepths, baseHits, loopVars>>

\* lines 44-45
SingleDieCase ==
    /\ pc = "running" /\ top.at = "entry"
    /\ Len(top.diceList) = 1
    /\ baseHits' = Append(baseHits, depth)
    /\ returnValue(singleDie(top.diceList[1]))
    /\ UNCHANGED <<hand, topRec, normDepths, loopVars>>

\* lines 47-50: the activation calls itself on the tail and waits
RecursiveCall ==
    /\ pc = "running" /\ top.at = "entry"
    /\ Len(top.diceList) > 2
    /\ stack' = Append([stack EXCEPT ![depth].at = "await"],
                       Frame(tailSlice(top.diceList), TRUE, "entry"))
    /\ UNCHANGED <<hand, topRec, pc, ret, result, normDepths, baseHits, loopVars>>

\* lines 53-62: the call of line 50 has returned tmp
Combine ==
    /\ pc = "running" /\ top.at = "await"
    /\ LET c == convolve(initProbArray(top.diceList), ret, top.diceList[1])
       IN  IF c.kind = "raise"
           THEN raiseOut(c.exc) /\ normDepths' = normDepths
           ELSE finishFrame(c.value)
    /\ UNCHANGED <<hand, topRec, baseHits, loopVars>>

\* lines 57-62
PairCase ==
    /\ pc = "running" /\ top.at = "entry"
    /\ Len(top.diceList) = 2
    /\ finishFrame(doubleDiceCall(top.diceList[1], top.diceList[2]))
    /\ UNCHANGED <<hand, topRec, baseHits, loopVars>>

-----------------------------------------------------------------------------------------------------------------------------------------------------
(* Strings: a Python str is a sequence of one-character strings *)

Digits == {"0", "1", "2", "3", "4", "5", "6", "7", "8", "9"}

digitValue(c) ==
    CASE c = "0" -> 0 [] c = "1" -> 1 [] c = "2" -> 2 [] c = "3" -> 3
      [] c = "4" -> 4 [] c = "5" -> 5 [] c = "6" -> 6 [] c = "7" -> 7
      [] c = "8" -> 8 [] c = "9" -> 9

\* s[k:] with k >= 0
sliceFrom(s, k) == SubSeq(s, k + 1, Len(s))

\* s[:k] with k >= 0
sliceTo(s, k) == SubSeq(s, 1, Min(k, Len(s)))

\* str.split(sep), sep one character
RECURSIVE split(_, _)
split(s, sep) ==
    IF \A i \in 1 .. Len(s) : s[i] # sep THEN <<s>>
    ELSE LET i == CHOOSE j \in 1 .. Len(s) :
                      s[j] = sep /\ \A k \in 1 .. (j - 1) : s[k] # sep
         IN  <<SubSeq(s, 1, i - 1)>> \o split(SubSeq(s, i + 1, Len(s)), sep)

\* str.strip()
RECURSIVE strip(_)
strip(s) ==
    IF s = <<>> THEN s
    ELSE IF s[1] = " " THEN strip(Tail(s))
    ELSE IF s[Len(s)] = " " THEN strip(SubSeq(s, 1, Len(s) - 1))
    ELSE s

RECURSIVE digitsValue(_)
digitsValue(ds) ==
    IF ds = <<>> THEN 0
    ELSE 10 * digitsValue(SubSeq(ds, 1, Len(ds) - 1)) + digitValue(ds[Len(ds)])

\* int(s): blanks around, an optional sign, one or more digits; ValueError
\* for anything else
int(s) ==
    LET t == strip(s)
        signed == t # <<>> /\ t[1] \in {"+", "-"}
        ds == IF signed THEN Tail(t) ELSE t
    IN  IF ds = <<>> \/ \E i \in 1 .. Len(ds) : ds[i] \notin Digits
        THEN Raise("ValueError")
        ELSE Return(IF signed /\ t[1] = "-" THEN -digitsValue(ds) ELSE digitsValue(ds))

-----------------------------------------------------------------------------
(* dNumTranslator *)

\* lines 107-109, for one term di: the dice it adds to toReturn.  tmp[1] is
\* read inside the loop only, so not at all for a count below 1
termDice(di) ==
    LET tmp == split(strip(di), "d")
        count == int(tmp[1])
    IN  IF count.kind = "raise" THEN count
        ELSE IF count.value < 1 THEN Return(<<>>)
        ELSE IF Len(tmp) < 2 THEN Raise("IndexError")
        ELSE LET size == int(tmp[2])
             IN  IF size.kind = "raise" THEN size
                 ELSE Return(Repeat(size.value, count.value))

\* line 106: for di in dformat.split('+')
RECURSIVE termLoop(_, _)
termLoop(terms, toReturn) ==
    IF terms = <<>> THEN Return(toReturn)
    ELSE LET r == termDice(terms[1])
         IN  IF r.kind = "raise" THEN r
             ELSE termLoop(Tail(terms), toReturn \o r.value)

dNumTranslator(dformat) == termLoop(split(dformat, "+"), <<>>)

-----------------------------------------------------------------------------
(* The command loop of __main__ *)

\* line 170: x = [i for i in range(len(userInTrans), sum(userInTrans)+1)]
xAxis(userInTrans) ==
    LET lo == Len(userInTrans)
        hi == sum(userInTrans) + 1
    IN  IF hi <= lo THEN <<>> ELSE [i \in 1 .. (hi - lo) |-> lo + i - 1]

\* the commands tried
Inputs == {
    <<>>,  \* ''
    <<"d", "e">>,  \* 'de'
    <<"d", "e", "l">>,  \* 'del'
    <<"d", "e", "l", " ", "0">>,  \* 'del 0'
    <<"d", "e", "l", " ", "1">>,  \* 'del 1'
    <<"d", "e", "l", " ", "x">>,  \* 'del x'
    <<"a", "d", "d">>,  \* 'add'
    <<"a", "d", "d", " ", "1", "d", "6">>,  \* 'add 1d6'
    <<"a", "d", "d", " ", "2", "d", "4">>,  \* 'add 2d4'
    <<"a", "d", "d", " ", "1", "d", "4", " ", "+", " ", "2", "d", "6">>,  \* 'add 1d4 + 2d6'
    <<"a", "d", "d", " ", "1", "d", "0">>,  \* 'add 1d0'
    <<"a", "d", "d", " ", "0", "d", "6">>,  \* 'add 0d6'
    <<"a", "d", "d", " ", "1", "d", "-", "1">>,  \* 'add 1d-1'
    <<"a", "d", "d", " ", "1", "d", "0", "+", "1", "d", "6">>,  \* 'add 1d0+1d6'
    <<"a", "d", "d", " ", "x">>,  \* 'add x'
    <<"a", "d", "d", " ", "1", "d">>,  \* 'add 1d'
    <<"a", "d", "d", " ", "6">>,  \* 'add 6'
    <<"q", "i", "t">>,  \* 'qit'
    <<"h", "l", "p">>,  \* 'hlp'
    <<"f", "o", "o">>  \* 'foo'
}

kw_del == <<"d", "e", "l">>
kw_add == <<"a", "d", "d">>
kw_qit == <<"q", "i", "t">>
kw_hlp == <<"h", "l", "p">>

\* line 163: ax.lines.remove(<an int>) never returns.  Where Axes.lines has
\* no remove method the attribute lookup raises AttributeError; where it has
\* one, the lines are Line2D objects, none equal to an int, and remove
\* raises ValueError.  Line 164 is therefore never reached.
axLinesRemove == {"AttributeError", "ValueError"}

\* line 171: ax.plot(x, y) raises ValueError when x and y differ in length
axPlot(x, y) == IF Len(x) # Len(y) THEN Raise("ValueError") ELSE Return(<<>>)

\* an uncaught exception ends the program
crash(e) ==
    /\ status' = "crashed"
    /\ exc' = e
    /\ UNCHANGED <<dice, lines, gameOn>>

\* the iteration ends (continue, or the redraw of lines 186-191) and the
\* while condition is tested again
iterate(g) ==
    /\ gameOn' = g
    /\ status' = IF g THEN "running" ELSE "exited"
    /\ exc' = exc

\* lines 155-159: a command shorter than three characters
TooShort(in) ==
    /\ status = "running"
    /\ Len(in) < 3
    /\ userIn' = in /\ prevDice' = dice
    /\ iterate(gameOn)
    /\ UNCHANGED <<dice, lines, coreVars>>

\* lines 161-165
Del(in) ==
    /\ status = "running"
    /\ Len(in) >= 3 /\ sliceTo(in, 3) = kw_del
    /\ userIn' = in /\ prevDice' = dice
    /\ IF Len(in) > 4
       THEN \E e \in axLinesRemove : crash(e)
       ELSE iterate(gameOn) /\ UNCHANGED <<dice, lines>>
    /\ UNCHANGED coreVars

\* lines 167-173
Add(in) ==
    /\ status = "running"
    /\ Len(in) >= 3 /\ sliceTo(in, 3) = kw_add
    /\ Len(dice) < MaxHands
    /\ userIn' = in /\ prevDice' = dice
    /\ IF Len(in) > 4
       THEN LET userInTrans == dNumTranslator(sliceFrom(in, 4))
            IN  IF userInTrans.kind = "raise" THEN crash(userInTrans.exc)
                ELSE LET x == xAxis(userInTrans.value)
                         y == diceMap(userInTrans.value, FALSE)
                     IN  IF y.kind = "raise" THEN crash(y.exc)
                         ELSE IF axPlot(x, y.value).kind = "raise"
                              THEN crash(axPlot(x, y.value).exc)
                         ELSE /\ lines' = Append(lines, sliceFrom(in, 4))
                              /\ dice' = Append(dice, userInTrans.value)
                              /\ iterate(gameOn)
       ELSE iterate(gameOn) /\ UNCHANGED <<dice, lines>>
    /\ UNCHANGED coreVars

\* lines 175-176
Qit(in) ==
    /\ status = "running"
    /\ Len(in) >= 3 /\ sliceTo(in, 3) = kw_qit
    /\ userIn' = in /\ prevDice' = dice
    /\ iterate(FALSE)
    /\ UNCHANGED <<dice, lines, coreVars>>

\* lines 178-179
Hlp(in) ==
    /\ status = "running"
    /\ Len(in) >= 3 /\ sliceTo(in, 3) = kw_hlp
    /\ userIn' = in /\ prevDice' = dice
    /\ iterate(gameOn)
    /\ UNCHANGED <<dice, lines, coreVars>>

\* lines 181-183
Unknown(in) ==
    /\ status = "running"
    /\ Len(in) >= 3 /\ sliceTo(in, 3) \notin {kw_del, kw_add, kw_qit, kw_hlp}
    /\ userIn' = in /\ prevDice' = dice
    /\ iterate(gameOn)
    /\ UNCHANGED <<dice, lines, coreVars>>

\* lines 123-146: the program starts with the hand 2d6 plotted
LoopStart ==
    LET y == diceMap(<<6, 6>>, FALSE)
        started == y.kind = "return" /\ axPlot(xAxis(<<6, 6>>), y.value).kind = "return"
    IN  /\ dice = <<<<6, 6>>>>
        /\ lines = <<<<"2", "d", "6">>>>
        /\ gameOn = TRUE
        /\ status = IF started THEN "running" ELSE "crashed"
        /\ exc = "none"
        /\ userIn = <<>>
        /\ prevDice = <<<<6, 6>>>>

CoreIdle ==
    /\ hand = <<>>
    /\ topRec = FALSE
    /\ pc = "idle"
    /\ stack = <<>>
    /\ ret = <<>>
    /\ result = Return(<<>>)
    /\ normDepths = <<>>
    /\ baseHits = <<>>

LoopInit == CoreIdle /\ LoopStart

LoopNext ==
    \E in \in Inputs :
        \/ TooShort(in)
        \/ Del(in)
        \/ Add(in)
        \/ Qit(in)
        \/ Hlp(in)
        \/ Unknown(in)

LoopSpec == LoopInit /\ [][LoopNext]_vars

-----------------------------------------------------------------------------
(* The two specifications *)

Init ==
    /\ hand \in Hands
    /\ topRec \in BOOLEAN
    /\ pc = "ready"
    /\ stack = <<>>
    /\ ret = <<>>
    /\ result = Return(<<>>)
    /\ normDepths = <<>>
    /\ baseHits = <<>>
    /\ LoopStart

Next ==
    \/ Start
    \/ EmptyHand
    \/ SingleDieCase
    \/ RecursiveCall
    \/ Combine
    \/ PairCase

Spec == Init /\ [][Next]_vars

\* the call-by-call run and the one-step evaluation agree
RunAgrees == pc = "done" => result = diceMap(hand, topRec)

-----
(* What the claims speak of *)

\* a valid hand: not empty, every size at least 1
Valid(h) == h # <<>> /\ \A i \in 1 .. Len(h) : h[i] >= 1

PyInts(s) == [i \in 1 .. Len(s) |-> PyInt(s[i])]

AllInts(s) == \A i \in 1 .. Len(s) : s[i].type = "int"

\* every outcome tuple of a valid hand: one face 1..size per die
Outcomes(h) == {t \in [1 .. Len(h) -> 1 .. MaxSize] : \A i \in 1 .. Len(h) : t[i] <= h[i]}

RECURSIVE faceSum(_, _)
faceSum(t, n) == IF n = 0 THEN 0 ELSE t[n] + faceSum(t, n - 1)

\* the histogram of sums, by enumeration
Histogram(h) ==
    LET all == Outcomes(h)
    IN  [i \in 1 .. (sum(h) - Len(h) + 1) |->
            PyInt(Cardinality({t \in all : faceSum(t, Len(h)) = Len(h) + i - 1}))]

\* sum(s) of a list of numbers, as a number
RECURSIVE total(_)
total(s) == IF s = <<>> THEN PyInt(0) ELSE PyAdd(s[1], total(Tail(s)))

Rearrangements(h) == {[i \in 1 .. Len(h) |-> h[f[i]]] : f \in Permutations(1 .. Len(h))}

\* C1: for a valid hand of two or more dice, diceMap(hand, rec=True) is the
\* histogram got by enumerating every outcome tuple and counting per sum
C1_Histogram ==
    (pc = "done" /\ Valid(hand) /\ Len(hand) >= 2 /\ topRec)
        => result = Return(Histogram(hand))

C1_Witness ==
    /\ pc = "done" /\ topRec
    /\ hand = <<3, 4, 4>>
    /\ result = Return(PyInts(<<1, 3, 6, 9, 10, 9, 6, 3, 1>>))

\* C2: for every valid hand, the entries of diceMap(hand, rec=True) sum to
\* product(hand)
C2_SumIsProduct ==
    (pc = "done" /\ Valid(hand) /\ topRec)
        => /\ result.kind = "return"
           /\ LET t == total(result.value)
              IN  t.num = reduceMul(hand) * t.den

\* C3: for positive n and m, doubleDiceCall(n, m) has n+m-1 entries, all
\* filled, entry i being min(i+1, min(n,m), n+m-1-i)
C3_Trapezoid ==
    (pc = "done" /\ Valid(hand) /\ Len(hand) = 2 /\ topRec)
        => LET n == hand[1]
               m == hand[2]
               want == [j \in 1 .. (n + m - 1) |->
                           PyInt(Min(j, Min(Min(n, m), n + m - j)))]
           IN  /\ doubleDiceCall(n, m) = want
               /\ result = Return(want)

C3_Witness ==
    /\ pc = "done" /\ topRec
    /\ hand = <<2, 4>>
    /\ result = Return(PyInts(<<1, 2, 2, 2, 1>>))

\* C4: for every valid hand and both values of rec, the list returned has
\* sum(hand) - len(hand) + 1 entries, as many as the x axis of the add command
C4_Length ==
    (pc = "done" /\ Valid(hand))
        => /\ result.kind = "return"
           /\ Len(result.value) = sum(hand) - Len(hand) + 1
           /\ Len(result.value) = Len(xAxis(hand))

C4_Witness ==
    /\ pc = "done" /\ ~topRec
    /\ hand = <<3, 4, 4>>
    /\ result.kind = "return"
    /\ Len(result.value) = 9
    /\ xAxis(hand) = <<3, 4, 5, 6, 7, 8, 9, 10, 11>>

\* C5: diceMap fails, returning nothing, whenever the hand is empty or holds
\* a size below 1
C5_InvalidFails ==
    (pc = "done" /\ ~Valid(hand)) => result.kind = "raise"

\* C6: the result does not depend on the order of the dice
C6_OrderFree ==
    (pc = "done" /\ Valid(hand))
        => \A p \in Rearrangements(hand) : diceMap(p, topRec) = result

C6_Witness ==
    /\ pc = "done" /\ ~topRec
    /\ hand = <<2, 4, 3>>
    /\ result.kind = "return"
    /\ diceMap(<<4, 3, 2>>, topRec) = result

C10_Recursion ==
    Len(hand) >= 2
        => /\ \A i \in 2 .. Len(stack) :
                  stack[i].rec /\ Len(stack[i].diceList) >= 2
           /\ baseHits = <<>>
           /\ (pc = "running" /\ top.at = "await") => AllInts(ret)
           /\ \A i \in 1 .. Len(normDepths) : normDepths[i] = 1
           /\ (pc = "done" /\ ~topRec) => normDepths = <<1>>
           /\ (pc = "done" /\ topRec) => (normDepths = <<>> /\ AllInts(result.value))

C10_Witness ==
    /\ pc = "done" /\ ~topRec
    /\ hand = <<2, 3, 4>>
    /\ normDepths = <<1>>
    /\ baseHits = <<>>
    /\ result.kind = "return"

\* the command handled last was 'del k', k an index of a hand then active
IsDelOfIndex ==
    /\ Len(userIn) > 4 /\ sliceTo(userIn, 3) = kw_del
    /\ int(sliceFrom(userIn, 4)).kind = "return"
    /\ int(sliceFrom(userIn, 4)).value \in 0 .. (Len(prevDice) - 1)

\* s without its element at 0-based index k
without(s, k) == SubSeq(s, 1, k) \o SubSeq(s, k + 2, Len(s))

\* C8: 'del k' with k an index of an active hand removes exactly that hand,
\* keeps the others in order, and the loop goes on
C8_DelRemoves ==
    IsDelOfIndex
        => /\ status = "running"
           /\ dice = without(prevDice, int(sliceFrom(userIn, 4)).value)

\* the command handled last was malformed: too short, an unknown keyword,
\* or an add whose notation does not parse or describes an invalid hand
IsMalformed ==
    \/ userIn # <<>> /\ Len(userIn) < 3
    \/ Len(userIn) >= 3 /\ sliceTo(userIn, 3) \notin {kw_del, kw_add, kw_qit, kw_hlp}
    \/ /\ Len(userIn) > 4 /\ sliceTo(userIn, 3) = kw_add
       /\ LET t == dNumTranslator(sliceFrom(userIn, 4))
          IN  t.kind = "raise" \/ ~Valid(t.value)

\* C9: a malformed command is discarded: the active hands are as before it
\* and the loop keeps running
C9_MalformedDiscarded ==
    IsMalformed => (dice = prevDice /\ status = "running")

====
